---- MODULE Spec2Model ----
(***************************************************************************)
(* A model of the snake game of src/main.rs: the SnakeGame struct, its     *)
(* constructor, the food placement, the per-tick movement update_snake,    *)
(* the frame callback update and the keyboard callback key_down_event.     *)
(*                                                                         *)
(* Time is counted in tenths of a second, so move_period (0.2 s) is 2.     *)
(***************************************************************************)
EXTENDS Integers, Sequences, FiniteSets

\* The grid of the model (main builds a 20 x 20 grid, src/main.rs:246).
GridWidth == 3
GridHeight == 2
\* The longest frame the time source reports, in tenths of a second.
MaxDt == 3
\* move_period: 0.2 seconds, in tenths of a second.
MovePeriod == 2

VARIABLES snake, direction, next_direction, food, score, grid_width,
          grid_height, move_timer, move_period, game_over, pc

vars == <<snake, direction, next_direction, food, score, grid_width,
          grid_height, move_timer, move_period, game_over, pc>>

\* A history variable, no field of the program: the direction key pressed
\* last since the last call of update_snake (or since construction), "none"
\* when there was none. Only SpecWindow records it.
VARIABLE last_key

allvars == <<vars, last_key>>

\* struct Point
Point(px, py) == [x |-> px, y |-> py]

\* enum Direction
Direction == {"Up", "Down", "Left", "Right"}

\* The keys the host delivers: the four arrows, R, and any other key.
KeyCode == {"Up", "Down", "Left", "Right", "R", "Other"}

\* The frame deltas the time source delivers.
Dts == 0..MaxDt

\* A membership test that looks at the head only.
contains_head_only(s, p) == Len(s) > 0 /\ s[1] = p

\* A membership test that leaves out the tail, the cell about to be vacated.
contains_skip_tail(s, p) == \E i \in 1..(Len(s) - 1) : s[i] = p

\* Vec::contains on the snake.
contains(s, p) == \E i \in 1..Len(s) : s[i] = p

\* Draws whose ranges start at 1 (gen_range(1..n) for gen_range(0..n)).
draws_from_one(w, h) == {Point(px, py) : px \in 1..(w - 1), py \in 1..(h - 1)}

\* The cells one draw of generate_food can produce:
\* x from gen_range(0..grid_width), y from gen_range(0..grid_height).
draws(w, h) == {Point(px, py) : px \in 0..(w - 1), py \in 0..(h - 1)}

\* A food placement that returns its first draw, on the snake or not.
generate_food_unchecked(s, w, h) == draws(w, h)

\* generate_food: the cells the rejection loop can return, those draws that
\* are not on the snake. When the set is empty the loop never returns.
generate_food(s, w, h) == {p \in draws(w, h) : ~contains(s, p)}

\* The start cell of SnakeGame::new (i32 division of positive numbers).
init_pos(w, h) == Point(w \div 2, h \div 2)

\* SnakeGame::new, given the cell generate_food returned.
new(w, h, f) ==
    [snake |-> <<init_pos(w, h)>>,
     direction |-> "Right",
     next_direction |-> "Right",
     food |-> f,
     score |-> 0,
     grid_width |-> w,
     grid_height |-> h,
     move_timer |-> 0,
     move_period |-> MovePeriod,
     game_over |-> FALSE]

\* main: SnakeGame::new(GridWidth, GridHeight).
Init ==
    \E f \in generate_food(<<init_pos(GridWidth, GridHeight)>>, GridWidth, GridHeight) :
        LET g == new(GridWidth, GridHeight, f) IN
        /\ snake = g.snake
        /\ direction = g.direction
        /\ next_direction = g.next_direction
        /\ food = g.food
        /\ score = g.score
        /\ grid_width = g.grid_width
        /\ grid_height = g.grid_height
        /\ move_timer = g.move_timer
        /\ move_period = g.move_period
        /\ game_over = g.game_over
        /\ pc = "ready"
        /\ last_key = "none"

\* A head move with the y axis upside down (Up: y+1, Down: y-1).
new_head_inverted_y(head, d) ==
    CASE d = "Up" -> Point(head.x, head.y + 1)
      [] d = "Down" -> Point(head.x, head.y - 1)
      [] d = "Left" -> Point(head.x - 1, head.y)
      [] d = "Right" -> Point(head.x + 1, head.y)

\* The match on self.direction in update_snake: the head moved one cell.
new_head(head, d) ==
    CASE d = "Up" -> Point(head.x, head.y - 1)
      [] d = "Down" -> Point(head.x, head.y + 1)
      [] d = "Left" -> Point(head.x - 1, head.y)
      [] d = "Right" -> Point(head.x + 1, head.y)

\* A boundary test that is off by one towards the outside (> for >=).
out_of_bounds_loose(p, w, h) == p.x < 0 \/ p.x > w \/ p.y < 0 \/ p.y > h

\* A boundary test that is off by one towards the inside (<= for <).
out_of_bounds_strict(p, w, h) == p.x <= 0 \/ p.x >= w \/ p.y <= 0 \/ p.y >= h

\* The boundary test of update_snake.
out_of_bounds(p, w, h) == p.x < 0 \/ p.x >= w \/ p.y < 0 \/ p.y >= h

\* Vec::insert(0, p)
insert_front(s, p) == <<p>> \o s

\* A pop that removes the first element instead of the last.
pop_front(s) == Tail(s)

\* A pop that removes nothing.
pop_none(s) == s

\* Vec::pop: the vector without its last element.
pop(s) == SubSeq(s, 1, Len(s) - 1)

\* update_snake after its game_over guard (lines 90-132).
step_snake ==
    LET d == next_direction
        nh == new_head(Head(snake), d)
    IN
    /\ direction' = d
    /\ UNCHANGED <<next_direction, grid_width, grid_height, move_period>>
    /\ IF out_of_bounds(nh, grid_width, grid_height)
       THEN /\ game_over' = TRUE
            /\ UNCHANGED <<snake, food, score, pc>>
       ELSE IF contains(snake, nh)
       THEN /\ game_over' = TRUE
            /\ UNCHANGED <<snake, food, score, pc>>
       ELSE IF nh = food
       THEN /\ snake' = insert_front(snake, nh)
            /\ score' = score + 1
            /\ game_over' = game_over
            /\ IF generate_food(snake', grid_width, grid_height) = {}
               THEN \* the rejection loop of generate_food never returns
                    /\ pc' = "generate_food"
                    /\ food' = food
               ELSE /\ pc' = pc
                    /\ food' \in generate_food(snake', grid_width, grid_height)
       ELSE /\ snake' = pop(insert_front(snake, nh))
            /\ UNCHANGED <<food, score, game_over, pc>>

\* An update_snake without the game_over guard.
update_snake_unguarded == step_snake

\* SnakeGame::update_snake
update_snake ==
    IF game_over
    THEN UNCHANGED <<snake, direction, next_direction, food, score, grid_width,
                     grid_height, move_period, game_over, pc>>
    ELSE step_snake

\* An update that fires when the timer reaches the period (>= for >).
update_ge(dt) ==
    /\ pc = "ready"
    /\ IF move_timer + dt >= move_period
       THEN /\ move_timer' = 0
            /\ update_snake
       ELSE /\ move_timer' = move_timer + dt
            /\ UNCHANGED <<snake, direction, next_direction, food, score,
                           grid_width, grid_height, move_period, game_over, pc>>

\* EventHandler::update with the frame delta dt.
update(dt) ==
    /\ pc = "ready"
    /\ IF move_timer + dt > move_period
       THEN /\ move_timer' = 0
            /\ update_snake
       ELSE /\ move_timer' = move_timer + dt
            /\ UNCHANGED <<snake, direction, next_direction, food, score,
                           grid_width, grid_height, move_period, game_over, pc>>

\* The filter without its else-if arm: only the first test and its inner check.
accepts_no_else(d, nd) ==
    /\ \/ ((d = "Up" /\ nd # "Down") /\ (d = "Down" /\ nd # "Up"))
       \/ (d = "Left" /\ nd # "Right")
       \/ (d = "Right" /\ nd # "Left")
    /\ ~(d = "Up" /\ nd = "Down")
    /\ ~(d = "Down" /\ nd = "Up")
    /\ ~(d = "Left" /\ nd = "Right")
    /\ ~(d = "Right" /\ nd = "Left")

\* A filter that accepts every request.
accepts_anything(d, nd) == TRUE

\* The reversal filter of key_down_event: whether next_direction is set to nd
\* when the committed direction is d (Rust: && binds tighter than ||).
accepts(d, nd) ==
    IF \/ ((d = "Up" /\ nd # "Down") /\ (d = "Down" /\ nd # "Up"))
       \/ (d = "Left" /\ nd # "Right")
       \/ (d = "Right" /\ nd # "Left")
    THEN /\ ~(d = "Up" /\ nd = "Down")
         /\ ~(d = "Down" /\ nd = "Up")
         /\ ~(d = "Left" /\ nd = "Right")
         /\ ~(d = "Right" /\ nd = "Left")
    ELSE \/ (d = "Up" /\ nd # "Down")
         \/ (d = "Down" /\ nd # "Up")
         \/ (d = "Left" /\ nd # "Right")
         \/ (d = "Right" /\ nd # "Left")

\* A restart that resets the fields one by one and forgets the pending
\* direction and the timer.
restart_partial ==
    \E f \in generate_food(<<init_pos(grid_width, grid_height)>>,
                           grid_width, grid_height) :
        /\ snake' = <<init_pos(grid_width, grid_height)>>
        /\ direction' = "Right"
        /\ food' = f
        /\ score' = 0
        /\ game_over' = FALSE
        /\ UNCHANGED <<next_direction, grid_width, grid_height, move_timer,
                       move_period, pc>>

\* The arm `KeyCode::R if self.game_over`: *self = SnakeGame::new(...).
restart ==
    IF generate_food(<<init_pos(grid_width, grid_height)>>, grid_width, grid_height) = {}
    THEN /\ pc' = "generate_food"
         /\ UNCHANGED <<snake, direction, next_direction, food, score, grid_width,
                        grid_height, move_timer, move_period, game_over>>
    ELSE \E f \in generate_food(<<init_pos(grid_width, grid_height)>>,
                                grid_width, grid_height) :
        LET g == new(grid_width, grid_height, f) IN
        /\ snake' = g.snake
        /\ direction' = g.direction
        /\ next_direction' = g.next_direction
        /\ food' = g.food
        /\ score' = g.score
        /\ grid_width' = g.grid_width
        /\ grid_height' = g.grid_height
        /\ move_timer' = g.move_timer
        /\ move_period' = g.move_period
        /\ game_over' = g.game_over
        /\ pc' = pc

\* A key handler whose R arm has lost its `if self.game_over` guard.
key_down_event_unguarded_restart(key) ==
    /\ pc = "ready"
    /\ IF key \in Direction
       THEN /\ next_direction' = IF accepts(direction, key) THEN key ELSE next_direction
            /\ UNCHANGED <<snake, direction, food, score, grid_width, grid_height,
                           move_timer, move_period, game_over, pc>>
       ELSE IF key = "R"
       THEN restart
       ELSE UNCHANGED vars

\* A key handler that also commits an accepted direction at once.
key_down_event_immediate(key) ==
    /\ pc = "ready"
    /\ IF key \in Direction
       THEN /\ next_direction' = IF accepts(direction, key) THEN key ELSE next_direction
            /\ direction' = next_direction'
            /\ UNCHANGED <<snake, food, score, grid_width, grid_height,
                           move_timer, move_period, game_over, pc>>
       ELSE IF key = "R" /\ game_over
       THEN restart
       ELSE UNCHANGED vars

\* EventHandler::key_down_event with the key pressed.
key_down_event(key) ==
    /\ pc = "ready"
    /\ IF key \in Direction
       THEN /\ next_direction' = IF accepts(direction, key) THEN key ELSE next_direction
            /\ UNCHANGED <<snake, direction, food, score, grid_width, grid_height,
                           move_timer, move_period, game_over, pc>>
       ELSE IF key = "R" /\ game_over
       THEN restart
       ELSE UNCHANGED vars

\* One more rejected draw of a generate_food that cannot return: every cell
\* of the grid is on the snake.
generate_food_retry ==
    /\ pc = "generate_food"
    /\ \E p \in draws(grid_width, grid_height) : contains(snake, p)
    /\ UNCHANGED vars

Frame == \E dt \in Dts : update(dt)

Key == \E key \in KeyCode : key_down_event(key)

Next ==
    \/ Frame /\ UNCHANGED last_key
    \/ Key /\ UNCHANGED last_key
    \/ generate_food_retry /\ UNCHANGED last_key

Spec == Init /\ [][Next]_allvars

\* The same program with the window of direction keys recorded: a frame that
\* calls update_snake opens a new window, and so does a restart.
FrameWindow ==
    \E dt \in Dts :
        /\ update(dt)
        /\ last_key' = IF move_timer + dt > move_period THEN "none" ELSE last_key

KeyWindow ==
    \E key \in KeyCode :
        /\ key_down_event(key)
        /\ last_key' = IF key \in Direction THEN key
                       ELSE IF key = "R" /\ game_over THEN "none"
                       ELSE last_key

RetryWindow == generate_food_retry /\ UNCHANGED last_key

NextWindow == FrameWindow \/ KeyWindow \/ RetryWindow

SpecWindow == Init /\ [][NextWindow]_allvars

(***************************************************************************)
(* The same program with the rejection loop of generate_food taken one     *)
(* draw at a time: pc = "generate_food" while the loop runs. The fields    *)
(* hold what the caller assigns on return; food keeps its old cell (the    *)
(* new head) in update_snake, and is shown on the start cell while new     *)
(* runs, where the struct is not built yet.                                *)
(***************************************************************************)

\* main: SnakeGame::new(GridWidth, GridHeight), at its call of generate_food.
InitLoop ==
    LET g == new(GridWidth, GridHeight, init_pos(GridWidth, GridHeight)) IN
    /\ snake = g.snake
    /\ direction = g.direction
    /\ next_direction = g.next_direction
    /\ food = g.food
    /\ score = g.score
    /\ grid_width = g.grid_width
    /\ grid_height = g.grid_height
    /\ move_timer = g.move_timer
    /\ move_period = g.move_period
    /\ game_over = g.game_over
    /\ pc = "generate_food"
    /\ last_key = "none"

\* One iteration of the loop of generate_food: a draw, returned when it is
\* not on the snake and thrown away when it is.
generate_food_draw ==
    /\ pc = "generate_food"
    /\ \E p \in draws(grid_width, grid_height) :
          IF ~contains(snake, p)
          THEN /\ food' = p
               /\ pc' = "ready"
               /\ UNCHANGED <<snake, direction, next_direction, score, grid_width,
                              grid_height, move_timer, move_period, game_over>>
          ELSE UNCHANGED vars

\* update_snake after its game_over guard, up to its call of generate_food.
step_snake_loop ==
    LET d == next_direction
        nh == new_head(Head(snake), d)
    IN
    /\ direction' = d
    /\ UNCHANGED <<next_direction, grid_width, grid_height, move_period>>
    /\ IF out_of_bounds(nh, grid_width, grid_height)
       THEN /\ game_over' = TRUE
            /\ UNCHANGED <<snake, food, score, pc>>
       ELSE IF contains(snake, nh)
       THEN /\ game_over' = TRUE
            /\ UNCHANGED <<snake, food, score, pc>>
       ELSE IF nh = food
       THEN /\ snake' = insert_front(snake, nh)
            /\ score' = score + 1
            /\ pc' = "generate_food"
            /\ UNCHANGED <<food, game_over>>
       ELSE /\ snake' = pop(insert_front(snake, nh))
            /\ UNCHANGED <<food, score, game_over, pc>>

\* EventHandler::update with the frame delta dt.
update_loop(dt) ==
    /\ pc = "ready"
    /\ IF move_timer + dt > move_period
       THEN /\ move_timer' = 0
            /\ IF game_over
               THEN UNCHANGED <<snake, direction, next_direction, food, score,
                                grid_width, grid_height, move_period, game_over, pc>>
               ELSE step_snake_loop
       ELSE /\ move_timer' = move_timer + dt
            /\ UNCHANGED <<snake, direction, next_direction, food, score,
                           grid_width, grid_height, move_period, game_over, pc>>

\* EventHandler::key_down_event with the key pressed; the R arm up to the
\* call of generate_food in new.
key_down_event_loop(key) ==
    /\ pc = "ready"
    /\ IF key \in Direction
       THEN /\ next_direction' = IF accepts(direction, key) THEN key ELSE next_direction
            /\ UNCHANGED <<snake, direction, food, score, grid_width, grid_height,
                           move_timer, move_period, game_over, pc>>
       ELSE IF key = "R" /\ game_over
       THEN LET g == new(grid_width, grid_height, init_pos(grid_width, grid_height)) IN
            /\ snake' = g.snake
            /\ direction' = g.direction
            /\ next_direction' = g.next_direction
            /\ food' = g.food
            /\ score' = g.score
            /\ grid_width' = g.grid_width
            /\ grid_height' = g.grid_height
            /\ move_timer' = g.move_timer
            /\ move_period' = g.move_period
            /\ game_over' = g.game_over
            /\ pc' = "generate_food"
       ELSE UNCHANGED vars

FrameLoop == (\E dt \in Dts : update_loop(dt)) /\ UNCHANGED last_key

KeyLoop == (\E key \in KeyCode : key_down_event_loop(key)) /\ UNCHANGED last_key

DrawLoop == generate_food_draw /\ UNCHANGED last_key

NextLoop == FrameLoop \/ KeyLoop \/ DrawLoop

\* Fair draws: a loop that could return on some draw does not go on for ever
\* drawing only the others.
SpecLoop == InitLoop /\ [][NextLoop]_allvars /\ WF_allvars(DrawLoop)

(***************************************************************************)
(* The vocabulary of the properties, stated on the state alone.            *)
(***************************************************************************)

\* The frame steps in which update calls update_snake (the accumulated time
\* strictly exceeds the period): one advance of the game.
Advance == \E dt \in Dts : move_timer + dt > move_period /\ update(dt)

\* The exact opposite of a direction.
Opposite(d) ==
    CASE d = "Up" -> "Down"
      [] d = "Down" -> "Up"
      [] d = "Left" -> "Right"
      [] d = "Right" -> "Left"

\* The cell one unit from p along d (Up: y-1, Down: y+1, Left: x-1, Right: x+1).
Translate(p, d) ==
    [x |-> p.x + (IF d = "Right" THEN 1 ELSE IF d = "Left" THEN -1 ELSE 0),
     y |-> p.y + (IF d = "Down" THEN 1 ELSE IF d = "Up" THEN -1 ELSE 0)]

\* The cells of the snake.
Body == {snake[i] : i \in DOMAIN snake}

\* p lies on the grid.
InGrid(p) == p.x \in 0..(grid_width - 1) /\ p.y \in 0..(grid_height - 1)

\* The head an advance in the current state would compute.
NextHead == Translate(snake[1], next_direction)

\* The snake has no two equal cells.
NoDuplicates == \A i, j \in DOMAIN snake : i # j => snake[i] # snake[j]

(***************************************************************************)
(* The properties.                                                         *)
(***************************************************************************)

\* C1: in every reachable state, while game_over is false the snake is
\* non-empty and holds no cell twice.
C1_SnakeNonEmptyNoDuplicates ==
    ~game_over => (Len(snake) >= 1 /\ NoDuplicates)

\* An active game whose snake has grown to five cells.
C1_Witness == ~game_over /\ Len(snake) >= 5

\* C2: in every state reached by completed calls (no generate_food loop is
\* running), while game_over is false the food is on no cell of the snake.
C2_FoodNotOnSnake ==
    (pc = "ready" /\ ~game_over) => food \notin Body

\* An active game in which food has been placed anew three times.
C2_Witness == pc = "ready" /\ ~game_over /\ score >= 3

\* C3: for every committed direction and every requested direction nd, in
\* active and terminal states alike, the key handler can only end with
\* pendingDirection = nd when nd is not the opposite of the committed
\* direction, and with pendingDirection unchanged when it is.
C3_ReversalRule ==
    pc = "ready" =>
        \A nd \in Direction :
            LET expected == IF nd = Opposite(direction) THEN next_direction ELSE nd IN
            /\ ENABLED (key_down_event(nd) /\ next_direction' = expected)
            /\ ~ENABLED (key_down_event(nd) /\ next_direction' # expected)

\* A terminal state whose committed direction is Up and in which a
\* perpendicular request has been accepted.
C3_Witness == game_over /\ direction = "Up" /\ next_direction = "Left"

\* C4: an advance in an active state whose new head is off the grid sets
\* game_over and leaves snake, food and score as they were.
C4_BoundaryCollision ==
    [][(Advance /\ ~game_over /\ ~InGrid(NextHead))
         => (game_over' /\ snake' = snake /\ food' = food /\ score' = score)]_vars

\* The state a boundary collision of a grown snake leaves: over, the snake
\* still on the grid, the cell ahead of the head off the grid.
C4_Witness ==
    /\ game_over
    /\ Len(snake) >= 2
    /\ \A i \in DOMAIN snake : InGrid(snake[i])
    /\ ~InGrid(Translate(snake[1], direction))

\* C5: an advance in an active state whose new head is on the grid and on a
\* cell of the snake sets game_over and leaves snake, food and score as they
\* were.
C5_SelfCollision ==
    [][(Advance /\ ~game_over /\ InGrid(NextHead) /\ NextHead \in Body)
         => (game_over' /\ snake' = snake /\ food' = food /\ score' = score)]_vars

\* The state a self collision leaves: over, the cell ahead of the head on
\* the grid and on the snake.
C5_Witness ==
    /\ game_over
    /\ InGrid(Translate(snake[1], direction))
    /\ Translate(snake[1], direction) \in Body

\* C6: an advance whose new head is on the grid and not on the snake, and
\* which returns, prepends the new head; when the new head is the food the
\* score and the length grow by one and the new food is on the grid and not
\* on the new snake; otherwise the last cell is dropped, the rest keep
\* their order, and score and food are unchanged.
C6_MoveOrGrow ==
    [][(Advance /\ ~game_over /\ InGrid(NextHead) /\ NextHead \notin Body /\ pc' = "ready")
         => /\ ~game_over'
            /\ snake'[1] = NextHead
            /\ IF NextHead = food
               THEN /\ score' = score + 1
                    /\ Len(snake') = Len(snake) + 1
                    /\ \A i \in DOMAIN snake : snake'[i + 1] = snake[i]
                    /\ InGrid(food')
                    /\ \A i \in DOMAIN snake' : snake'[i] # food'
               ELSE /\ score' = score
                    /\ food' = food
                    /\ Len(snake') = Len(snake)
                    /\ \A i \in 2..Len(snake) : snake'[i] = snake[i - 1]]_vars

\* An active game just after an advance, with two foods eaten and the snake
\* turned away from its first direction.
C6_Witness ==
    /\ pc = "ready"
    /\ ~game_over
    /\ move_timer = 0
    /\ score = 2
    /\ Len(snake) = 3
    /\ direction # "Right"

\* C7: with game_over true, an advance changes none of snake, food, score,
\* committed direction, pendingDirection and game_over.
C7_AdvanceNoOpWhenOver ==
    [][(Advance /\ game_over)
         => UNCHANGED <<snake, food, score, direction, next_direction, game_over>>]_vars

\* A terminal state in which frames went by after the collision and a new
\* direction is pending, so that an advance that acted would show.
C7_Witness == game_over /\ move_timer > 0 /\ next_direction # direction

\* C8: the restart key in a terminal state replaces the state by a fresh
\* one: a one-cell snake at the centre, both directions Right, score 0,
\* game_over false, timer 0, the same grid, and a food on the grid and off
\* the snake.
C8_RestartResets ==
    [][(game_over /\ key_down_event("R"))
         => /\ snake' = <<[x |-> grid_width \div 2, y |-> grid_height \div 2]>>
            /\ direction' = "Right"
            /\ next_direction' = "Right"
            /\ score' = 0
            /\ ~game_over'
            /\ move_timer' = 0
            /\ grid_width' = grid_width /\ grid_height' = grid_height
            /\ move_period' = move_period
            /\ food' \in {[x |-> cx, y |-> cy] :
                            cx \in 0..(grid_width - 1), cy \in 0..(grid_height - 1)}
            /\ food' # snake'[1]]_vars

\* A terminal state in which every field a restart resets differs from its
\* fresh value: a grown snake, a score, a running timer, a direction queued
\* while the game was over.
C8_Witness ==
    /\ game_over
    /\ score >= 2
    /\ move_timer > 0
    /\ direction # "Right"
    /\ next_direction # direction
    /\ next_direction # "Right"

\* C9: in an active state the restart key has no successor state that
\* differs from the current one, and an unrecognized key has none in any
\* state.
C9_NoEffectKeys ==
    pc = "ready" =>
        /\ ENABLED key_down_event("Other")
        /\ ~ENABLED (key_down_event("Other") /\ vars' # vars)
        /\ ~game_over =>
              /\ ENABLED key_down_event("R")
              /\ ~ENABLED (key_down_event("R") /\ vars' # vars)

\* An active state that a restart would visibly change.
C9_Witness ==
    /\ pc = "ready"
    /\ ~game_over
    /\ score >= 1
    /\ move_timer > 0
    /\ next_direction # direction

\* C10: game_over turns from true to false only in a restart step, and from
\* false to true only in an advance whose new head is off the grid or on
\* the snake; so it stays true across every other step.
C10_GameOverTransitions ==
    [][/\ (game_over /\ ~game_over') => key_down_event("R")
       /\ (~game_over /\ game_over') =>
              (Advance /\ (~InGrid(NextHead) \/ NextHead \in Body))]_vars

\* A terminal state of a game that had grown, with a direction queued after
\* the collision.
C10_Witness == game_over /\ Len(snake) >= 3 /\ next_direction # direction

\* C11: in every active state whose snake has a second cell, the head an
\* advance would compute is not that second cell, whatever inputs came
\* before.
C11_NeverOntoNeck ==
    (~game_over /\ Len(snake) >= 2) => NextHead # snake[2]

\* An active snake of three cells with a turn pending.
C11_Witness ==
    ~game_over /\ pc = "ready" /\ Len(snake) >= 3 /\ next_direction # direction

\* C13: a directional key changes at most pendingDirection, and the
\* committed direction changes only in an advance or a restart.
C13_DirectionKeyFrame ==
    [][/\ (\E nd \in Direction : key_down_event(nd))
            => UNCHANGED <<snake, food, score, direction, game_over, grid_width,
                           grid_height, move_timer, move_period>>
       /\ direction' # direction
            => ((Advance /\ direction' = next_direction) \/ key_down_event("R"))]_vars

\* A state in which an accepted request waits for the next advance while the
\* timer runs.
C13_Witness ==
    /\ pc = "ready"
    /\ ~game_over
    /\ next_direction = "Down"
    /\ direction = "Left"
    /\ move_timer > 0

\* C14: a frame of length dt either finds the accumulated time strictly
\* above the period, resets the timer to zero and advances once (the head
\* moves one cell at most, whatever the surplus), or adds dt to the timer
\* and changes nothing else.
C14_FrameTiming ==
    [][\A dt \in Dts :
         update(dt) =>
            IF move_timer + dt > move_period
            THEN /\ move_timer' = 0
                 /\ direction' = (IF game_over THEN direction ELSE next_direction)
                 /\ IF ~game_over /\ InGrid(NextHead) /\ NextHead \notin Body
                    THEN /\ snake'[1] = NextHead
                         /\ \A i \in 2..Len(snake') : snake'[i] = snake[i - 1]
                    ELSE snake' = snake
            ELSE /\ move_timer' = move_timer + dt
                 /\ UNCHANGED <<snake, direction, next_direction, food, score,
                                grid_width, grid_height, move_period, game_over,
                                pc>>]_vars

\* A frame has left the timer exactly at the period without an advance.
C14_Witness == pc = "ready" /\ ~game_over /\ move_timer = move_period /\ score >= 1

\* C15: an advance whose new head is the cell of the tail sets game_over
\* and does not move the snake.
C15_TailCellCollision ==
    [][(Advance /\ ~game_over /\ Len(snake) >= 2 /\ NextHead = snake[Len(snake)])
         => (game_over' /\ snake' = snake)]_vars

\* A snake of four cells coiled in a square, over after turning onto its tail.
C15_Witness ==
    /\ game_over
    /\ Len(snake) = 4
    /\ Translate(snake[1], direction) = snake[4]

\* C17: in every reachable state every cell of the snake and the food are
\* on the grid, and the grid has the dimensions it was built with.
C17_AllCellsInGrid ==
    /\ grid_width = GridWidth
    /\ grid_height = GridHeight
    /\ \A i \in DOMAIN snake : InGrid(snake[i])
    /\ InGrid(food)

\* Over at the right wall: the head in the last column, heading Right.
C17_Witness ==
    game_over /\ snake[1].x = grid_width - 1 /\ direction = "Right" /\ score >= 1

\* C18: pendingDirection is never the exact opposite of the committed
\* direction.
C18_PendingNeverOpposite == next_direction # Opposite(direction)

\* A perpendicular request is pending in an active game heading Down.
C18_Witness == ~game_over /\ direction = "Down" /\ next_direction = "Right"

\* C19: score is the snake length minus one in every state; it changes only
\* by +1 in an advance onto the food and to 0 in a restart.
C19_ScoreIsLengthMinusOne ==
    /\ score = Len(snake) - 1
    /\ [][/\ score' = Len(snake') - 1
          /\ score' # score =>
                \/ (Advance /\ ~game_over /\ NextHead = food /\ score' = score + 1)
                \/ (game_over /\ key_down_event("R") /\ score' = 0)]_vars

\* A game that scored four.
C19_Witness == score = 4 /\ Len(snake) = 5

\* C20: consecutive cells of the snake differ by one unit in one coordinate,
\* and in an active game the head is one step along the committed direction
\* from the second cell.
C20_ContiguousPath ==
    /\ \A i \in 1..(Len(snake) - 1) :
          \E d \in Direction : snake[i] = Translate(snake[i + 1], d)
    /\ (~game_over /\ Len(snake) >= 2) => snake[1] = Translate(snake[2], direction)

\* An active snake with a bend on each axis.
C20_Witness ==
    /\ ~game_over
    /\ Len(snake) >= 4
    /\ snake[1].y # snake[2].y
    /\ snake[2].x # snake[3].x
    /\ snake[3].y # snake[4].y

\* C12 as claimed: the direction an advance commits is what the last key of
\* the window alone would give: that key, or the committed direction when
\* the key is its opposite.
C12_LastCallAlone ==
    [][(Advance /\ ~game_over /\ last_key # "none")
         => direction' = (IF last_key = Opposite(direction)
                          THEN direction ELSE last_key)]_vars

\* C12, amended: an advance commits the pending direction; that is the last
\* key of the window when the key is not the opposite of the committed
\* direction, the committed direction when the window had no key, and never
\* a key that is the opposite (which leaves what earlier keys queued).
C12_LastAcceptedCall ==
    [][(Advance /\ ~game_over)
         => /\ direction' = next_direction
            /\ last_key = "none" => direction' = direction
            /\ (last_key \in Direction /\ last_key # Opposite(direction))
                  => direction' = last_key
            /\ last_key = Opposite(direction) => direction' # last_key]_vars

\* The last key of the window was a rejected reversal while an earlier key
\* of the same window is still pending.
C12_Witness ==
    /\ pc = "ready"
    /\ ~game_over
    /\ last_key = Opposite(direction)
    /\ next_direction # direction

\* The cells of the grid.
AllCells ==
    {[x |-> cx, y |-> cy] : cx \in 0..(grid_width - 1), cy \in 0..(grid_height - 1)}

\* C16: under fair draws, a food placement that runs while some cell of the
\* grid is off the snake returns, and what it returns is a cell of the grid
\* off the snake; a placement that runs while the snake fills the grid never
\* returns, and that is the only way a call fails to complete.
C16_FoodPlacementReturns ==
    /\ [][(pc = "generate_food" /\ pc' = "ready")
            => (food' \in AllCells /\ food' \notin Body /\ snake' = snake)]_vars
    /\ [][(pc = "generate_food" /\ Body = AllCells) => pc' = "generate_food"]_vars
    /\ (pc = "generate_food" /\ Body # AllCells) ~> (pc = "ready")

\* A placement has returned the one cell the snake had left free.
C16_Witness ==
    /\ pc = "ready"
    /\ ~game_over
    /\ Cardinality(Body) = Cardinality(AllCells) - 1
    /\ food \notin Body

====
